---- MODULE Spec2Model ----
(***************************************************************************)
(* pngme: the chunk-type rules (src/src/chunk_type.rs), the chunk codec    *)
(* (src/src/chunk.rs), the Png container (module png, declared in          *)
(* src/src/main.rs:14) and the command-line driver (src/src/main.rs).      *)
(*                                                                         *)
(* Representation.  A byte is a number in 0..255.  A u32 is the pair       *)
(* <<hi, lo>> of its two 16-bit halves, so that every value of the full    *)
(* 32-bit range is kept and to_be_bytes / from_be_bytes are real           *)
(* conversions.  A Rust string is the sequence of its Unicode scalar       *)
(* values; its len() is the length of its UTF-8 encoding.                  *)
(***************************************************************************)
EXTENDS Integers, Sequences, FiniteSets, TLC

VARIABLES
    build,      \* "debug" (overflow checks on) or "release" (wrapping)
    s,          \* the &str given to ChunkType::from_str
    raw,        \* the [u8; 4] given to ChunkType::try_from
    tres,       \* the Result of the ChunkType constructor
    flags,      \* the answers of the five flag queries on tres.val
    pcT,        \* position of the chunk-type scenario
    value,      \* the Vec<u8> handed to Chunk::try_from
    made,       \* the Chunk built by Chunk::new (NoChunk when value is raw input)
    res,        \* the Result of Chunk::try_from(value)
    out,        \* Chunk::as_bytes of the parsed chunk
    orig,       \* the accepted bytes, kept when a checksum bit is flipped
    pcC,        \* position of the chunk scenario
    container,  \* a Png: its chunks, in order
    before,     \* the chunks before the last container operation
    op,         \* the last container operation: its kind, argument and outcome
    ser,        \* Png::as_bytes of the container
    back,       \* the Result of Png::try_from(ser)
    pcP,        \* position of the container scenario
    args,       \* main: the command-line arguments
    file,       \* main: the content of the file at `path` (NoFile: there is none)
    file0,      \* the content of the file when main started
    png,        \* main: the parsed Png
    png0,       \* the Png as main parsed it
    stdout,     \* main: the chunks printed (NoChunk: the line "no chunk found")
    removals,   \* successful remove_chunk calls of the remove loop
    writes,     \* std::fs::write calls made
    exit,       \* how main ended
    pcM         \* position in main

typeVars == <<s, raw, tres, flags, pcT>>
chunkVars == <<value, made, res, out, orig, pcC>>
pngVars == <<container, before, op, ser, back, pcP>>
cliVars == <<args, file, file0, png, png0, stdout, removals, writes, exit, pcM>>
vars == <<build, typeVars, chunkVars, pngVars, cliVars>>

(***************************************************************************)
(* Bounds of the model.                                                    *)
(***************************************************************************)
MaxStrLen == 5      \* longest string (in scalar values) given to from_str
MaxData == 2        \* longest chunk payload
MaxChunks == 3      \* most chunks in a container

(***************************************************************************)
(* Integers of fixed width.                                                *)
(***************************************************************************)
RECURSIVE BitXor(_, _)
BitXor(a, b) ==
    IF a = 0 THEN b
    ELSE IF b = 0 THEN a
    ELSE (((a % 2) + (b % 2)) % 2) + 2 * BitXor(a \div 2, b \div 2)

RECURSIVE BitAnd(_, _)
BitAnd(a, b) ==
    IF a = 0 \/ b = 0 THEN 0
    ELSE ((a % 2) * (b % 2)) + 2 * BitAnd(a \div 2, b \div 2)

XorU32(p, q) == <<BitXor(p[1], q[1]), BitXor(p[2], q[2])>>
ShrU32(p, n) == <<p[1] \div (2^n), (p[2] \div (2^n)) + (p[1] % (2^n)) * (2^(16 - n))>>
NotU32(p) == <<65535 - p[1], 65535 - p[2]>>

\* u32::from_be_bytes and u32::to_be_bytes
from_be_bytes(b) == <<b[1] * 256 + b[2], b[3] * 256 + b[4]>>
to_be_bytes(x) == <<x[1] \div 256, x[1] % 256, x[2] \div 256, x[2] % 256>>

\* `n as u32` of a usize n, and `x as usize` of a u32 x
as_u32(n) == <<(n \div 65536) % 65536, n % 65536>>
as_usize(x) == x[1] * 65536 + x[2]

\* x + n on u32: the carry out of bit 31, and the wrapped sum
AddCarries(x, n) == x[1] + ((x[2] + n) \div 65536) > 65535
AddWrapped(x, n) == <<(x[1] + ((x[2] + n) \div 65536)) % 65536, (x[2] + n) % 65536>>

(***************************************************************************)
(* crc::crc32::checksum_ieee: the table-driven CRC-32 of the crc crate     *)
(* (reflected polynomial 0xEDB88320, initial value and final XOR all ones).*)
(***************************************************************************)
IEEE == <<60856, 33568>>

RECURSIVE TableStep(_, _)
TableStep(c, k) ==
    IF k = 0 THEN c
    ELSE TableStep(IF c[2] % 2 = 1 THEN XorU32(IEEE, ShrU32(c, 1)) ELSE ShrU32(c, 1), k - 1)

IEEE_TABLE == [n \in 0..255 |-> TableStep(<<0, n>>, 8)]

RECURSIVE update(_, _)
update(v, bytes) ==
    IF bytes = <<>> THEN v
    ELSE update(XorU32(IEEE_TABLE[BitXor(v[2] % 256, Head(bytes))], ShrU32(v, 8)),
                Tail(bytes))

checksum_ieee(bytes) == NotU32(update(NotU32(<<0, 0>>), bytes))

(***************************************************************************)
(* Strings: UTF-8 encoding (str::len, str::as_bytes) and decoding          *)
(* (String::from_utf8).                                                    *)
(***************************************************************************)
Utf8Len(c) == IF c < 128 THEN 1 ELSE IF c < 2048 THEN 2 ELSE IF c < 65536 THEN 3 ELSE 4

Utf8Encode(c) ==
    IF c < 128 THEN <<c>>
    ELSE IF c < 2048 THEN <<192 + (c \div 64), 128 + (c % 64)>>
    ELSE IF c < 65536 THEN <<224 + (c \div 4096), 128 + ((c \div 64) % 64), 128 + (c % 64)>>
    ELSE <<240 + (c \div 262144), 128 + ((c \div 4096) % 64),
           128 + ((c \div 64) % 64), 128 + (c % 64)>>

RECURSIVE str_len(_)
str_len(str) == IF str = <<>> THEN 0 ELSE Utf8Len(Head(str)) + str_len(Tail(str))

RECURSIVE str_as_bytes(_)
str_as_bytes(str) == IF str = <<>> THEN <<>> ELSE Utf8Encode(Head(str)) \o str_as_bytes(Tail(str))

Cont(b) == b \in 128..191

\* Some(string) or None: the well-formed UTF-8 byte sequences of the Unicode standard
RECURSIVE from_utf8(_)
from_utf8(b) ==
    IF b = <<>> THEN [ok |-> TRUE, str |-> <<>>]
    ELSE LET b1 == b[1]
             n == IF b1 < 128 THEN 1
                  ELSE IF b1 \in 194..223 THEN 2
                  ELSE IF b1 \in 224..239 THEN 3
                  ELSE IF b1 \in 240..244 THEN 4
                  ELSE 0
             wellFormed ==
                 /\ n > 0
                 /\ Len(b) >= n
                 /\ n >= 2 => /\ Cont(b[2])
                              /\ b1 = 224 => b[2] >= 160
                              /\ b1 = 237 => b[2] <= 159
                              /\ b1 = 240 => b[2] >= 144
                              /\ b1 = 244 => b[2] <= 143
                 /\ n >= 3 => Cont(b[3])
                 /\ n >= 4 => Cont(b[4])
             c == IF n = 1 THEN b1
                  ELSE IF n = 2 THEN (b1 - 192) * 64 + (b[2] - 128)
                  ELSE IF n = 3 THEN (b1 - 224) * 4096 + (b[2] - 128) * 64 + (b[3] - 128)
                  ELSE (b1 - 240) * 262144 + (b[2] - 128) * 4096 + (b[3] - 128) * 64
                       + (b[4] - 128)
         IN  IF ~wellFormed THEN [ok |-> FALSE, str |-> <<>>]
             ELSE LET rest == from_utf8(SubSeq(b, n + 1, Len(b)))
                  IN  IF rest.ok THEN [ok |-> TRUE, str |-> <<c>> \o rest.str]
                      ELSE rest

is_ascii_uppercase(c) == c \in 65..90
is_ascii_lowercase(c) == c \in 97..122

(***************************************************************************)
(* Results.  An Err carries the message or the ChunkErr variant of the     *)
(* source; Panic is an abort of the call (unwrap, expect, overflow check). *)
(***************************************************************************)
NoVal == <<>>
Ok(v) == [tag |-> "Ok", val |-> v, err |-> ""]
Err(e) == [tag |-> "Err", val |-> NoVal, err |-> e]
Panic(e) == [tag |-> "Panic", val |-> NoVal, err |-> e]
Pending == [tag |-> "Pending", val |-> NoVal, err |-> ""]

(***************************************************************************)
(* ChunkType (src/src/chunk_type.rs).  A ChunkType is its 4 bytes.         *)
(***************************************************************************)
ChunkType_try_from(bytes4) == Ok(bytes4)

ChunkType_from_str_ByChars(str) ==
    IF Len(str) # 4 THEN Err("invalid str")
    ELSE IF \E i \in 1..Len(str) : ~is_ascii_uppercase(str[i]) /\ ~is_ascii_lowercase(str[i])
         THEN Err("invalid character")
    ELSE Ok(str_as_bytes(str))

ChunkType_from_str(str) ==
    IF str_len(str) # 4 THEN Err("invalid str")
    ELSE IF \E i \in 1..Len(str) : ~is_ascii_uppercase(str[i]) /\ ~is_ascii_lowercase(str[i])
         THEN Err("invalid character")
    ELSE Ok(str_as_bytes(str))

bytes(t) == t

is_critical(t) == BitAnd(t[1], 32) = 0
is_public(t) == BitAnd(t[2], 32) = 0
is_reserved_bit_valid(t) == BitAnd(t[3], 32) = 0

is_safe_to_copy_SamePolarity(t) == BitAnd(t[4], 32) = 0

is_safe_to_copy(t) == BitAnd(t[4], 32) # 0
is_valid(t) == is_reserved_bit_valid(t)

\* the text of a FromUtf8Error: no text a chunk type can have
FromUtf8ErrorText == <<-1>>

\* Display for ChunkType: the string, or the text of the decoding error
ChunkType_to_string(t) ==
    LET d == from_utf8(t) IN IF d.ok THEN d.str ELSE FromUtf8ErrorText

(***************************************************************************)
(* Chunk (src/src/chunk.rs).                                               *)
(***************************************************************************)
NoChunk == [length |-> <<0, 0>>, chunk_type |-> <<>>, chunk_data |-> <<>>, crc |-> <<0, 0>>]

crc_checksum(chunk_type, chunk_data) == checksum_ieee(bytes(chunk_type) \o chunk_data)

Chunk_new_CrcOfDataOnly(chunk_type, data) ==
    [length |-> as_u32(Len(data)),
     chunk_type |-> chunk_type,
     chunk_data |-> data,
     crc |-> checksum_ieee(data)]

Chunk_new(chunk_type, data) ==
    [length |-> as_u32(Len(data)),
     chunk_type |-> chunk_type,
     chunk_data |-> data,
     crc |-> crc_checksum(chunk_type, data)]

as_bytes_LittleEndian(c) ==
    <<c.length[2] % 256, c.length[2] \div 256, c.length[1] % 256, c.length[1] \div 256>>
        \o bytes(c.chunk_type) \o c.chunk_data \o to_be_bytes(c.crc)

as_bytes_NoChecksum(c) ==
    to_be_bytes(c.length) \o bytes(c.chunk_type) \o c.chunk_data

as_bytes(c) ==
    to_be_bytes(c.length) \o bytes(c.chunk_type) \o c.chunk_data \o to_be_bytes(c.crc)

\* lines 56..74 of try_from with the checksum comparison left out
try_from_fields_Unverified(v, length, length_all) ==
    LET chunk_type_str == from_utf8(SubSeq(v, 5, 8))
    IN  IF ~chunk_type_str.ok THEN Err("chunk_type is invalid")
        ELSE LET chunk_type == ChunkType_from_str(chunk_type_str.str)
             IN  IF chunk_type.tag # "Ok" THEN chunk_type
                 ELSE LET message == SubSeq(v, 9, 8 + as_usize(length))
                          in_crc_checksum ==
                              from_be_bytes(SubSeq(v, as_usize(length_all) - 3,
                                                   as_usize(length_all)))
                      IN  Ok([length |-> length,
                              chunk_type |-> chunk_type.val,
                              chunk_data |-> message,
                              crc |-> in_crc_checksum])

\* lines 56..74 of try_from: the type, the payload, the checksum and its check
try_from_fields(v, length, length_all) ==
    LET chunk_type_str == from_utf8(SubSeq(v, 5, 8))
    IN  IF ~chunk_type_str.ok THEN Err("chunk_type is invalid")
        ELSE LET chunk_type == ChunkType_from_str(chunk_type_str.str)
             IN  IF chunk_type.tag # "Ok" THEN chunk_type
                 ELSE LET message == SubSeq(v, 9, 8 + as_usize(length))
                          in_crc_checksum ==
                              from_be_bytes(SubSeq(v, as_usize(length_all) - 3,
                                                   as_usize(length_all)))
                          checksum == crc_checksum(chunk_type.val, message)
                      IN  IF checksum # in_crc_checksum THEN Err("CrcVerify")
                          ELSE Ok([length |-> length,
                                   chunk_type |-> chunk_type.val,
                                   chunk_data |-> message,
                                   crc |-> in_crc_checksum])

\* Chunk::try_from(&Vec<u8>); `length + 12` aborts where overflow checks are
\* compiled in and wraps where they are not
Chunk_try_from(v, overflow_checks) ==
    IF Len(v) < 12 THEN Err("value length less than 12")
    ELSE LET length == from_be_bytes(SubSeq(v, 1, 4))
         IN  IF AddCarries(length, 12) /\ overflow_checks
             THEN Panic("attempt to add with overflow")
             ELSE LET length_all == AddWrapped(length, 12)
                  IN  IF length_all # as_u32(Len(v)) THEN Err("ParseErr")
                      ELSE try_from_fields(v, length, length_all)

(***************************************************************************)
(* Png (module png of src/src/main.rs:14; its file is not among the        *)
(* sources, so it is written from the container design: a fixed signature  *)
(* and the chunks in order).  A Png is the sequence of its chunks.         *)
(***************************************************************************)
STANDARD_HEADER == <<137, 80, 78, 71, 13, 10, 26, 10>>

\* the chunks of the bytes after the signature: chunk after chunk, each of
\* its declared length + 12 bytes, to the exact end of the input
RECURSIVE parse_chunks(_, _)
parse_chunks(rest, overflow_checks) ==
    IF rest = <<>> THEN Ok(<<>>)
    ELSE IF Len(rest) < 12 THEN Err("value length less than 12")
    ELSE LET length == from_be_bytes(SubSeq(rest, 1, 4))
         IN  IF length[1] # 0 \/ length[2] + 12 > Len(rest) THEN Err("ParseErr")
             ELSE LET total == length[2] + 12
                      chunk == Chunk_try_from(SubSeq(rest, 1, total), overflow_checks)
                  IN  IF chunk.tag # "Ok" THEN chunk
                      ELSE LET more == parse_chunks(SubSeq(rest, total + 1, Len(rest)),
                                                    overflow_checks)
                           IN  IF more.tag # "Ok" THEN more
                               ELSE Ok(<<chunk.val>> \o more.val)

Png_try_from(b, overflow_checks) ==
    IF Len(b) < 8 \/ SubSeq(b, 1, 8) # STANDARD_HEADER THEN Err("BadSignature")
    ELSE parse_chunks(SubSeq(b, 9, Len(b)), overflow_checks)

append_chunk(self, chunk) == Append(self, chunk)

Matches(self, str) == {i \in 1..Len(self) : ChunkType_to_string(self[i].chunk_type) = str}

\* Some(the first chunk whose type reads as str) or None
chunk_by_type(self, str) ==
    IF Matches(self, str) = {} THEN [some |-> FALSE, chunk |-> NoChunk]
    ELSE [some |-> TRUE,
          chunk |-> self[CHOOSE i \in Matches(self, str) : \A j \in Matches(self, str) : i <= j]]

RECURSIVE remove_every(_, _)
remove_every(self, str) ==
    IF self = <<>> THEN <<>>
    ELSE IF ChunkType_to_string(Head(self).chunk_type) = str THEN remove_every(Tail(self), str)
    ELSE <<Head(self)>> \o remove_every(Tail(self), str)

remove_chunk_EveryMatch(self, str) ==
    IF remove_every(self, str) = self THEN [tag |-> "Err", err |-> "NotFound", png |-> self]
    ELSE [tag |-> "Ok", err |-> "", png |-> remove_every(self, str)]

\* remove the first chunk whose type reads as str; the outcome and the chunks left
RECURSIVE remove_chunk(_, _)
remove_chunk(self, str) ==
    IF self = <<>> THEN [tag |-> "Err", err |-> "NotFound", png |-> <<>>]
    ELSE IF ChunkType_to_string(Head(self).chunk_type) = str
         THEN [tag |-> "Ok", err |-> "", png |-> Tail(self)]
    ELSE LET r == remove_chunk(Tail(self), str)
         IN  [r EXCEPT !.png = <<Head(self)>> \o r.png]

RECURSIVE chunks_bytes(_)
chunks_bytes(self) ==
    IF self = <<>> THEN <<>> ELSE as_bytes(Head(self)) \o chunks_bytes(Tail(self))

Png_as_bytes(self) == STANDARD_HEADER \o chunks_bytes(self)

chunks(self) == self

(***************************************************************************)
(* Inputs of the scenarios.                                                *)
(***************************************************************************)
Seqs(S, n) == UNION {[1..k -> S] : k \in 0..n}

\* 'R', 'u', '1', e-acute (2 bytes in UTF-8), an emoji (4 bytes in UTF-8)
Chars == {82, 117, 49, 233, 128512}
Strings == Seqs(Chars, MaxStrLen)

\* bytes with bit 0x20 set and unset, letters and others
TypeBytes == {0, 32, 65, 97, 223, 255}
RawTypes == [1..4 -> TypeBytes]

RuSt == <<82, 117, 83, 116>>

NoFlags ==
    [is_valid |-> FALSE, is_critical |-> FALSE, is_public |-> FALSE,
     is_reserved_bit_valid |-> FALSE, is_safe_to_copy |-> FALSE]

TypeIdle == s = <<>> /\ raw = <<>> /\ tres = Pending /\ flags = NoFlags /\ pcT = "idle"
ChunkIdle ==
    /\ value = <<>> /\ made = NoChunk /\ res = Pending
    /\ out = <<>> /\ orig = <<>> /\ pcC = "idle"
NoOp == [kind |-> "none", arg |-> <<>>, tag |-> "", err |-> ""]
PngIdle ==
    /\ container = <<>> /\ before = <<>> /\ op = NoOp
    /\ ser = <<>> /\ back = Pending /\ pcP = "idle"
NoFile == <<-1>>
NoArgs == [action |-> "", chunk_type |-> <<>>, message |-> <<>>]
CliIdle ==
    /\ args = NoArgs /\ file = NoFile /\ file0 = NoFile /\ png = <<>> /\ png0 = <<>>
    /\ stdout = <<>> /\ removals = 0 /\ writes = 0 /\ exit = Pending /\ pcM = "idle"

(***************************************************************************)
(* The chunk-type scenario: a constructor, then the flag queries.          *)
(***************************************************************************)
InitType ==
    /\ build = "release"
    /\ tres = Pending /\ flags = NoFlags
    /\ \/ s \in Strings /\ raw = <<>> /\ pcT = "str"
       \/ s = <<>> /\ raw \in RawTypes /\ pcT = "raw"
    /\ ChunkIdle
    /\ PngIdle
    /\ CliIdle

FromStr ==
    /\ pcT = "str"
    /\ tres' = ChunkType_from_str(s)
    /\ pcT' = "built_str"
    /\ UNCHANGED <<build, s, raw, flags, chunkVars, pngVars, cliVars>>

TryFromBytes4 ==
    /\ pcT = "raw"
    /\ tres' = ChunkType_try_from(raw)
    /\ pcT' = "built_raw"
    /\ UNCHANGED <<build, s, raw, flags, chunkVars, pngVars, cliVars>>

FlagQueries ==
    /\ pcT \in {"built_str", "built_raw"}
    /\ tres.tag = "Ok"
    /\ flags' = [is_valid |-> is_valid(tres.val),
                 is_critical |-> is_critical(tres.val),
                 is_public |-> is_public(tres.val),
                 is_reserved_bit_valid |-> is_reserved_bit_valid(tres.val),
                 is_safe_to_copy |-> is_safe_to_copy(tres.val)]
    /\ pcT' = "queried"
    /\ UNCHANGED <<build, s, raw, tres, chunkVars, pngVars, cliVars>>

NextType == FromStr \/ TryFromBytes4 \/ FlagQueries

SpecType == InitType /\ [][NextType]_vars

(***************************************************************************)
(* The chunk scenario: bytes arrive (any frame, or the serialization of a  *)
(* Chunk::new), are parsed, and the parsed chunk is serialized again or    *)
(* one bit of its checksum field is flipped and the bytes parsed again.    *)
(***************************************************************************)
PayloadBytes == {0, 104, 255}
Payloads == Seqs(PayloadBytes, MaxData)

LengthFields ==
    {<<0, 0, 0, n>> : n \in 0..(MaxData + 1)}
        \cup {<<0, 0, 1, 0>>, <<255, 255, 255, 243>>, <<255, 255, 255, 244>>,
              <<255, 255, 255, 255>>}

\* "RuSt", "Rust", "ruST", "Ru1t", two e-acute, a byte that is not UTF-8
TypeFields ==
    {RuSt, <<82, 117, 115, 116>>, <<114, 117, 83, 84>>, <<82, 117, 49, 116>>,
     <<195, 169, 195, 169>>, <<255, 117, 83, 116>>}

Frames ==
    {l \o t \o d \o c :
        l \in LengthFields, t \in TypeFields, d \in Payloads,
        c \in {<<0, 0, 0, 0>>}} \cup
    {l \o t \o d \o to_be_bytes(checksum_ieee(t \o d)) :
        l \in LengthFields, t \in TypeFields, d \in Payloads} \cup
    {<<>>, <<0, 0, 0, 0, 82, 117, 83, 116, 0, 0, 0>>}

\* the types a caller can build: from a string, or from 4 raw bytes
TypeStrings == {RuSt, <<82, 117, 115, 116>>, <<82, 117, 49, 116>>, <<233, 233>>}
TypeArrays == {RuSt, <<49, 50, 51, 52>>, <<255, 0, 32, 65>>}
BuiltTypes ==
    {r.val : r \in {q \in {ChunkType_from_str(x) : x \in TypeStrings} \cup
                          {ChunkType_try_from(x) : x \in TypeArrays} : q.tag = "Ok"}}

\* bit k (0..31, from the least significant bit of the last byte) of the last 4 bytes
FlipChecksumBit(v, k) ==
    LET i == Len(v) - (k \div 8)
    IN  [v EXCEPT ![i] = BitXor(v[i], 2^(k % 8))]

InitChunk ==
    /\ build \in {"debug", "release"}
    /\ TypeIdle
    /\ value = <<>> /\ made = NoChunk /\ res = Pending
    /\ out = <<>> /\ orig = <<>> /\ pcC = "start"
    /\ PngIdle
    /\ CliIdle

ReceiveBytes ==
    /\ pcC = "start"
    /\ value' \in Frames
    /\ pcC' = "bytes"
    /\ UNCHANGED <<build, typeVars, pngVars, cliVars, made, res, out, orig>>

NewChunk ==
    /\ pcC = "start"
    /\ \E T \in BuiltTypes, D \in Payloads : made' = Chunk_new(T, D)
    /\ pcC' = "made"
    /\ UNCHANGED <<build, typeVars, pngVars, cliVars, value, res, out, orig>>

SerializeMade ==
    /\ pcC = "made"
    /\ value' = as_bytes(made)
    /\ pcC' = "bytes"
    /\ UNCHANGED <<build, typeVars, pngVars, cliVars, made, res, out, orig>>

ParseBytes ==
    /\ pcC = "bytes"
    /\ res' = Chunk_try_from(value, build = "debug")
    /\ pcC' = "parsed"
    /\ UNCHANGED <<build, typeVars, pngVars, cliVars, value, made, out, orig>>

SerializeParsed ==
    /\ pcC = "parsed"
    /\ res.tag = "Ok"
    /\ out' = as_bytes(res.val)
    /\ pcC' = "rewritten"
    /\ UNCHANGED <<build, typeVars, pngVars, cliVars, value, made, res, orig>>

FlipBit ==
    /\ pcC = "parsed"
    /\ res.tag = "Ok"
    /\ orig = <<>>
    /\ \E k \in 0..31 : value' = FlipChecksumBit(value, k)
    /\ orig' = value
    /\ res' = Pending
    /\ pcC' = "bytes"
    /\ UNCHANGED <<build, typeVars, pngVars, cliVars, made, out>>

NextChunk ==
    \/ ReceiveBytes
    \/ NewChunk
    \/ SerializeMade
    \/ ParseBytes
    \/ SerializeParsed
    \/ FlipBit

SpecChunk == InitChunk /\ [][NextChunk]_vars

(***************************************************************************)
(* The container scenario: an empty or a parsed Png, any appends and       *)
(* removals, then Png::as_bytes and Png::try_from of the bytes.            *)
(***************************************************************************)
\* chunks a caller can hold: Chunk::new of a type built from a string or from
\* raw bytes ("RuSt", "Rust", and the raw bytes "1234")
PoolChunks ==
    {Chunk_new(RuSt, <<>>), Chunk_new(RuSt, <<104>>),
     Chunk_new(<<82, 117, 115, 116>>, <<>>), Chunk_new(<<49, 50, 51, 52>>, <<>>)}

\* "RuSt", "Rust", "1234" and the empty string
TypeQueries == {RuSt, <<82, 117, 115, 116>>, <<49, 50, 51, 52>>, <<>>}

\* frames of a file: two chunks parse accepts, one with a wrong checksum, a stub
FileFrames ==
    {<<>>,
     as_bytes(Chunk_new(RuSt, <<104>>)),
     as_bytes(Chunk_new(<<82, 117, 115, 116>>, <<>>)),
     <<0, 0, 0, 0>> \o RuSt \o <<0, 0, 0, 0>>,
     <<1, 2, 3>>}

PngFiles ==
    {STANDARD_HEADER \o f \o g : f, g \in FileFrames} \cup {<<>>, <<137, 80, 78, 71>>}

InitPng ==
    /\ build = "release"
    /\ TypeIdle
    /\ ChunkIdle
    /\ container = <<>> /\ before = <<>> /\ op = NoOp
    /\ ser = <<>> /\ back = Pending /\ pcP = "ready"
    /\ CliIdle

LoadPng ==
    /\ pcP = "ready"
    /\ op = NoOp
    /\ \E b \in PngFiles :
          LET r == Png_try_from(b, build = "debug")
          IN  /\ op' = [kind |-> "parse", arg |-> b, tag |-> r.tag, err |-> r.err]
              /\ container' = IF r.tag = "Ok" THEN r.val ELSE container
              /\ pcP' = IF r.tag = "Ok" THEN "ready" ELSE "rejected"
    /\ UNCHANGED <<build, typeVars, chunkVars, cliVars, before, ser, back>>

AppendChunk ==
    /\ pcP = "ready"
    /\ Len(container) < MaxChunks
    /\ \E c \in PoolChunks :
          /\ container' = append_chunk(container, c)
          /\ op' = [kind |-> "append", arg |-> c.chunk_type, tag |-> "Ok", err |-> ""]
    /\ before' = container
    /\ UNCHANGED <<build, typeVars, chunkVars, cliVars, ser, back, pcP>>

RemoveChunk ==
    /\ pcP = "ready"
    /\ \E str \in TypeQueries :
          LET r == remove_chunk(container, str)
          IN  /\ container' = r.png
              /\ op' = [kind |-> "remove", arg |-> str, tag |-> r.tag, err |-> r.err]
    /\ before' = container
    /\ UNCHANGED <<build, typeVars, chunkVars, cliVars, ser, back, pcP>>

RoundTrip ==
    /\ pcP = "ready"
    /\ ser' = Png_as_bytes(container)
    /\ back' = Png_try_from(Png_as_bytes(container), build = "debug")
    /\ pcP' = "checked"
    /\ UNCHANGED <<build, typeVars, chunkVars, cliVars, container, before, op>>

NextPng == LoadPng \/ AppendChunk \/ RemoveChunk \/ RoundTrip

SpecPng == InitPng /\ [][NextPng]_vars

(***************************************************************************)
(* main (src/src/main.rs): one run of the program on one file.             *)
(***************************************************************************)
\* the chunks of the files given to main: a "RuSt" and a "Rust"
FileChunks == {Chunk_new(RuSt, <<104>>), Chunk_new(<<82, 117, 115, 116>>, <<>>)}

\* files: every container of FileChunks, a wrong signature, a wrong checksum
CliFiles ==
    {Png_as_bytes(x) : x \in Seqs(FileChunks, MaxChunks)} \cup
    {<<80, 78, 71>>,
     STANDARD_HEADER \o <<0, 0, 0, 0>> \o RuSt \o <<0, 0, 0, 0>>,
     NoFile}

\* "RuSt", "Ru1t" and the default ""
CliTypes == {RuSt, <<82, 117, 49, 116>>, <<>>}
CliMessages == {<<>>, <<104, 105>>}
CliActions == {"encode", "decode", "remove", "print", "list"}

InitCli ==
    /\ build = "release"
    /\ TypeIdle
    /\ ChunkIdle
    /\ PngIdle
    /\ args \in [action : CliActions, chunk_type : CliTypes, message : CliMessages]
    /\ (args.action # "encode") => args.message = <<>>
    /\ file \in CliFiles
    /\ file0 = file
    /\ png = <<>> /\ png0 = <<>> /\ stdout = <<>>
    /\ removals = 0 /\ writes = 0 /\ exit = Pending /\ pcM = "start"

\* lines 69..71: read the file and parse it; both results are unwrapped
ReadAndParse ==
    /\ pcM = "start"
    /\ IF file = NoFile
       THEN /\ exit' = Panic("read failed")
            /\ pcM' = "exit"
            /\ UNCHANGED <<png, png0>>
       ELSE LET r == Png_try_from(file, build = "debug")
            IN  IF r.tag # "Ok"
                THEN /\ exit' = Panic("parse failed")
                     /\ pcM' = "exit"
                     /\ UNCHANGED <<png, png0>>
                ELSE /\ png' = r.val
                     /\ png0' = r.val
                     /\ pcM' = "match"
                     /\ UNCHANGED exit
    /\ UNCHANGED <<build, typeVars, chunkVars, pngVars,
                   args, file, file0, stdout, removals, writes>>

Encode_WriteOnError ==
    /\ pcM = "match"
    /\ args.action = "encode"
    /\ LET t == ChunkType_from_str(args.chunk_type)
           withChunk == append_chunk(png, Chunk_new(t.val, str_as_bytes(args.message)))
       IN  IF t.tag # "Ok"
           THEN /\ exit' = Err(t.err)
                /\ file' = Png_as_bytes(png)
                /\ writes' = writes + 1
                /\ UNCHANGED png
           ELSE /\ png' = withChunk
                /\ file' = Png_as_bytes(withChunk)
                /\ writes' = writes + 1
                /\ exit' = Ok(NoVal)
    /\ pcM' = "exit"
    /\ UNCHANGED <<build, typeVars, chunkVars, pngVars,
                   args, file0, png0, stdout, removals>>

\* lines 73..77: the type is built first (`?` returns its error), then the
\* chunk is appended and the file written
Encode ==
    /\ pcM = "match"
    /\ args.action = "encode"
    /\ LET t == ChunkType_from_str(args.chunk_type)
           withChunk == append_chunk(png, Chunk_new(t.val, str_as_bytes(args.message)))
       IN  IF t.tag # "Ok"
           THEN /\ exit' = Err(t.err)
                /\ UNCHANGED <<png, file, writes>>
           ELSE /\ png' = withChunk
                /\ file' = Png_as_bytes(withChunk)
                /\ writes' = writes + 1
                /\ exit' = Ok(NoVal)
    /\ pcM' = "exit"
    /\ UNCHANGED <<build, typeVars, chunkVars, pngVars,
                   args, file0, png0, stdout, removals>>

\* lines 78..84
Decode ==
    /\ pcM = "match"
    /\ args.action = "decode"
    /\ stdout' = Append(stdout, chunk_by_type(png, args.chunk_type).chunk)
    /\ exit' = Ok(NoVal)
    /\ pcM' = "exit"
    /\ UNCHANGED <<build, typeVars, chunkVars, pngVars,
                   args, file, file0, png, png0, removals, writes>>

\* lines 86..88: one turn of the loop, entered while chunk_by_type finds a chunk
RemoveIteration ==
    /\ pcM = "match"
    /\ args.action = "remove"
    /\ chunk_by_type(png, args.chunk_type).some
    /\ LET r == remove_chunk(png, args.chunk_type)
       IN  IF r.tag # "Ok"
           THEN /\ exit' = Panic("remove chunk failed")
                /\ pcM' = "exit"
                /\ UNCHANGED <<png, removals>>
           ELSE /\ png' = r.png
                /\ removals' = removals + 1
                /\ UNCHANGED <<exit, pcM>>
    /\ UNCHANGED <<build, typeVars, chunkVars, pngVars,
                   args, file, file0, png0, stdout, writes>>

RemoveFinish_AfterOneTurn ==
    /\ pcM = "match"
    /\ args.action = "remove"
    /\ removals >= 1 \/ ~chunk_by_type(png, args.chunk_type).some
    /\ file' = Png_as_bytes(png)
    /\ writes' = writes + 1
    /\ exit' = Ok(NoVal)
    /\ pcM' = "exit"
    /\ UNCHANGED <<build, typeVars, chunkVars, pngVars,
                   args, file0, png, png0, stdout, removals>>

\* lines 86 and 89: the loop ends when chunk_by_type finds nothing; the file is written
RemoveFinish ==
    /\ pcM = "match"
    /\ args.action = "remove"
    /\ ~chunk_by_type(png, args.chunk_type).some
    /\ file' = Png_as_bytes(png)
    /\ writes' = writes + 1
    /\ exit' = Ok(NoVal)
    /\ pcM' = "exit"
    /\ UNCHANGED <<build, typeVars, chunkVars, pngVars,
                   args, file0, png, png0, stdout, removals>>

\* lines 91..95
PrintChunks ==
    /\ pcM = "match"
    /\ args.action = "print"
    /\ stdout' = stdout \o chunks(png)
    /\ exit' = Ok(NoVal)
    /\ pcM' = "exit"
    /\ UNCHANGED <<build, typeVars, chunkVars, pngVars,
                   args, file, file0, png, png0, removals, writes>>

\* lines 96..98
UnknownAction ==
    /\ pcM = "match"
    /\ args.action \notin {"encode", "decode", "remove", "print"}
    /\ exit' = Panic("unknown action")
    /\ pcM' = "exit"
    /\ UNCHANGED <<build, typeVars, chunkVars, pngVars,
                   args, file, file0, png, png0, stdout, removals, writes>>

NextCli ==
    \/ ReadAndParse
    \/ Encode
    \/ Decode
    \/ RemoveIteration
    \/ RemoveFinish
    \/ PrintChunks
    \/ UnknownAction

SpecCli == InitCli /\ [][NextCli]_vars

\* the remove loop runs on: neither its turns nor its end wait for anything
SpecCliFair == SpecCli /\ WF_vars(RemoveIteration) /\ WF_vars(RemoveFinish)

(***************************************************************************)
(* Properties of the chunk-type scenario.                                  *)
(***************************************************************************)
AllAlphabetic(str) == \A i \in 1..Len(str) : str[i] \in (65..90) \cup (97..122)
Utf8ByteCount(str) == Len(str_as_bytes(str))
Bit20Set(b) == (b % 64) >= 32

\* C5 as stated: from_str succeeds exactly on 4 characters all in A-Z/a-z and
\* then stores their 4 ASCII bytes; it fails with "invalid str" whenever the
\* number of scalar values is not 4, and with "invalid character" for every
\* string of 4 scalar values that has one outside A-Z/a-z.
C5_LengthCountedInScalarValues ==
    pcT = "built_str" =>
        /\ (tres.tag = "Ok") <=> (Len(s) = 4 /\ AllAlphabetic(s))
        /\ tres.tag = "Ok" => tres.val = s
        /\ Len(s) # 4 => tres.tag = "Err" /\ tres.err = "invalid str"
        /\ (Len(s) = 4 /\ ~AllAlphabetic(s)) =>
               tres.tag = "Err" /\ tres.err = "invalid character"

\* C5 amended: from_str succeeds exactly on 4 characters all in A-Z/a-z and
\* then stores their 4 ASCII bytes; it fails with "invalid str" whenever the
\* UTF-8 encoding of the string is not 4 bytes long, and with "invalid
\* character" for every string of 4 bytes that has a character outside A-Z/a-z.
C5_LengthCountedInBytes ==
    pcT = "built_str" =>
        /\ (tres.tag = "Ok") <=> (Len(s) = 4 /\ AllAlphabetic(s))
        /\ tres.tag = "Ok" => tres.val = s
        /\ Utf8ByteCount(s) # 4 => tres.tag = "Err" /\ tres.err = "invalid str"
        /\ (Utf8ByteCount(s) = 4 /\ ~AllAlphabetic(s)) =>
               tres.tag = "Err" /\ tres.err = "invalid character"

\* C5 witness: a string of 3 characters in 4 bytes was rejected for its character
C5_Witness ==
    /\ pcT = "built_str"
    /\ s = <<233, 82, 117>>
    /\ tres.tag = "Err" /\ tres.err = "invalid character"

\* C6: is_critical, is_public and is_reserved_bit_valid are true exactly when
\* bit 0x20 of byte 0, 1 and 2 is unset, is_safe_to_copy exactly when bit 0x20
\* of byte 3 is set, and is_valid equals is_reserved_bit_valid for every value
\* of the other bytes.
C6_FlagsFollowBit5 ==
    pcT = "queried" =>
        /\ flags.is_critical <=> ~Bit20Set(tres.val[1])
        /\ flags.is_public <=> ~Bit20Set(tres.val[2])
        /\ flags.is_reserved_bit_valid <=> ~Bit20Set(tres.val[3])
        /\ flags.is_safe_to_copy <=> Bit20Set(tres.val[4])
        /\ flags.is_valid <=> flags.is_reserved_bit_valid
        /\ flags.is_valid <=> ~Bit20Set(tres.val[3])

\* C6 witness: the flags of a raw type whose bytes are no letters were queried
C6_Witness ==
    /\ pcT = "queried"
    /\ tres.val = <<255, 0, 223, 32>>
    /\ flags = [is_valid |-> TRUE, is_critical |-> FALSE, is_public |-> TRUE,
                is_reserved_bit_valid |-> TRUE, is_safe_to_copy |-> TRUE]

(***************************************************************************)
(* Properties of the chunk scenario.                                       *)
(***************************************************************************)
\* the declared length plus 12 is the byte count, computed without a width
DeclaredLengthFits(v) == v[1] = 0 /\ v[2] = 0 /\ v[3] * 256 + v[4] + 12 = Len(v)

\* C1 as stated: for every ChunkType T, built from a string or from 4 raw
\* bytes, and every payload D, parsing the bytes of Chunk::new(T, D) succeeds
\* and yields length |D|, type T, payload D and checksum CRC-32(T ++ D).
C1_NewChunkParsesBack ==
    (pcC = "parsed" /\ made # NoChunk /\ orig = <<>>) =>
        /\ res.tag = "Ok"
        /\ res.val.length = <<0, Len(made.chunk_data)>>
        /\ res.val.chunk_type = made.chunk_type
        /\ res.val.chunk_data = made.chunk_data
        /\ res.val.crc = checksum_ieee(made.chunk_type \o made.chunk_data)

\* C1 amended: for every ChunkType T whose 4 bytes are ASCII letters (every type
\* from_str builds, and a raw-byte type only when its bytes are letters) and
\* every payload D, parsing the bytes of Chunk::new(T, D) succeeds and yields
\* length |D|, type T, payload D and checksum CRC-32(T ++ D).
C1_LetterTypeChunkParsesBack ==
    (pcC = "parsed" /\ made # NoChunk /\ orig = <<>> /\ AllAlphabetic(made.chunk_type)) =>
        /\ res.tag = "Ok"
        /\ res.val.length = <<0, Len(made.chunk_data)>>
        /\ res.val.chunk_type = made.chunk_type
        /\ res.val.chunk_data = made.chunk_data
        /\ res.val.crc = checksum_ieee(made.chunk_type \o made.chunk_data)

\* C1 witness: the bytes of a new "RuSt" chunk with a payload were parsed
C1_Witness ==
    /\ pcC = "parsed" /\ orig = <<>>
    /\ made.chunk_type = RuSt /\ Len(made.chunk_data) > 0
    /\ res.tag = "Ok"

\* C3 as stated: for every input of at least 12 bytes whose declared length L
\* (over the whole u32 range) plus 12 is not the byte count, parse returns the
\* LengthMismatch error (ChunkErr::ParseErr): it neither aborts nor accepts.
C3_LengthMismatchReturned ==
    (pcC = "parsed" /\ Len(value) >= 12 /\ ~DeclaredLengthFits(value)) =>
        res.tag = "Err" /\ res.err = "ParseErr"

\* C4: flipping one bit of the last 4 bytes of bytes that parse accepted makes
\* parse fail with the checksum error (ChunkErr::CrcVerify).
C4_FlippedChecksumRejected ==
    (pcC = "parsed" /\ orig # <<>>) =>
        /\ Len(value) = Len(orig)
        /\ SubSeq(value, 1, Len(value) - 4) = SubSeq(orig, 1, Len(orig) - 4)
        /\ res.tag = "Err" /\ res.err = "CrcVerify"

\* C4 witness: an accepted chunk with a payload had a checksum bit flipped and
\* was parsed again
C4_Witness ==
    /\ pcC = "parsed" /\ orig # <<>> /\ Len(orig) > 12
    /\ value[Len(value) - 3] # orig[Len(orig) - 3]
    /\ res.tag = "Err"

\* C10: for every byte sequence that parse accepts, as_bytes of the parsed chunk
\* is that sequence (length, type, payload, checksum in that order, the numbers
\* big-endian), and its size is the chunk's length + 12.
C10_SerializeInvertsParse ==
    pcC = "rewritten" =>
        /\ out = value
        /\ Len(out) = as_usize(res.val.length) + 12
        /\ SubSeq(out, 5, 8) = res.val.chunk_type
        /\ SubSeq(out, 9, Len(out) - 4) = res.val.chunk_data

\* C10 witness: received bytes with a payload were accepted and serialized again
C10_Witness ==
    /\ pcC = "rewritten" /\ made = NoChunk
    /\ Len(value) > 12
    /\ out # <<>>

(***************************************************************************)
(* Properties of the container scenario.                                   *)
(***************************************************************************)
\* C2 as stated: for every container reached from the empty or a parsed one by
\* appends and removals, Png::try_from of its Png::as_bytes succeeds and gives
\* the same chunks in the same order; the bytes are the signature followed by
\* the chunks' bytes.
C2_ContainerRoundTrip ==
    pcP = "checked" =>
        /\ SubSeq(ser, 1, 8) = STANDARD_HEADER
        /\ back.tag = "Ok"
        /\ back.val = container

\* C2 amended: for every container reached from the empty or a parsed one by
\* appends and removals whose chunks all have types of ASCII letters (what
\* from_str builds and Chunk parse accepts), Png::try_from of its Png::as_bytes
\* succeeds and gives the same chunks in the same order; the bytes are the
\* signature followed by the chunks' bytes.
C2_LetterTypeContainerRoundTrip ==
    (pcP = "checked" /\ \A i \in 1..Len(container) : AllAlphabetic(container[i].chunk_type)) =>
        /\ ser = STANDARD_HEADER \o chunks_bytes(container)
        /\ back.tag = "Ok"
        /\ back.val = container

\* C2 witness: a container of two chunks left by a removal was serialized and
\* parsed back
C2_Witness ==
    /\ pcP = "checked"
    /\ op.kind = "remove" /\ op.tag = "Ok"
    /\ Len(container) = 2 /\ Len(container[1].chunk_data) > 0
    /\ back.tag = "Ok"

\* C7: one remove_chunk call on a container that holds a chunk whose type text
\* is the given string deletes the first such chunk and keeps every other chunk
\* in its order; with no such chunk it fails with NotFound and changes nothing.
C7_RemoveFirstMatchOnly ==
    op.kind = "remove" =>
        LET M == {i \in 1..Len(before) : ChunkType_to_string(before[i].chunk_type) = op.arg}
        IN  IF M = {}
            THEN op.tag = "Err" /\ op.err = "NotFound" /\ container = before
            ELSE LET first == CHOOSE i \in M : \A j \in M : i <= j
                 IN  /\ op.tag = "Ok"
                     /\ Len(container) = Len(before) - 1
                     /\ \A j \in 1..Len(container) :
                            container[j] = IF j < first THEN before[j] ELSE before[j + 1]

\* C7 witness: a removal from a container with two chunks of the type, the
\* first of them not at the head, left the second one in place
C7_Witness ==
    /\ op.kind = "remove" /\ op.tag = "Ok"
    /\ Len(before) = 3
    /\ ChunkType_to_string(before[1].chunk_type) # op.arg
    /\ ChunkType_to_string(before[2].chunk_type) = op.arg
    /\ ChunkType_to_string(before[3].chunk_type) = op.arg
    /\ container = <<before[1], before[3]>>

(***************************************************************************)
(* Properties of main.                                                     *)
(***************************************************************************)
MatchCount(p, str) == Cardinality(Matches(p, str))
Others(p, str) == SelectSeq(p, LAMBDA c : ChunkType_to_string(c.chunk_type) # str)

RemoveLoopSafe ==
    (args.action = "remove" /\ pcM \in {"match", "exit"}) =>
        /\ exit.err # "remove chunk failed"
        /\ removals <= MatchCount(png0, args.chunk_type)
        /\ (pcM = "exit" /\ exit.tag # "Ok") => exit.err \in {"read failed", "parse failed"}
        /\ (pcM = "exit" /\ exit.tag = "Ok") =>
               /\ removals = MatchCount(png0, args.chunk_type)
               /\ Matches(png, args.chunk_type) = {}
               /\ png = Others(png0, args.chunk_type)
               /\ writes = 1
               /\ file = Png_as_bytes(png)

\* C8: for every parsed container and type string the remove loop of main ends,
\* after exactly as many removals as there were chunks of the type; no removal
\* in the loop fails; and the container then written holds no chunk of the type
\* and every other chunk in its original order.
C8_RemoveLoopRemovesAll ==
    /\ []RemoveLoopSafe
    /\ (pcM = "match" /\ args.action = "remove") ~> (pcM = "exit")

\* C8 witness: the loop took two turns on a container of three chunks and the
\* file was written with the one chunk of another type
C8_Witness ==
    /\ args.action = "remove" /\ pcM = "exit" /\ exit.tag = "Ok"
    /\ Len(png0) = 3 /\ removals = 2 /\ Len(png) = 1
    /\ ChunkType_to_string(png0[2].chunk_type) # args.chunk_type
    /\ file # file0

\* C9: when an encode or remove run fails (the file does not parse, the type
\* given to encode is rejected, a removal fails), no write is made and the file
\* is as it was.
C9_NoWriteOnFailure ==
    (args.action \in {"encode", "remove"} /\ exit.tag \in {"Err", "Panic"}) =>
        /\ pcM = "exit"
        /\ writes = 0
        /\ file = file0

\* C9 witness: encode on a file that parses, with a type from_str rejects
C9_Witness ==
    /\ args.action = "encode" /\ pcM = "exit"
    /\ exit.tag = "Err" /\ exit.err = "invalid character"
    /\ Len(png0) > 0
    /\ file = file0

====
